---------------------------- MODULE Spec2Model ----------------------------
(***************************************************************************)
(* A model of the file mapper of repo-to-prompt (fileMapper.ts):           *)
(* shouldIgnore, estimateTokenCount and generateFileMap with its nested    *)
(* processDirectory.  Text is a sequence of characters, a character being  *)
(* a one-element string; the box-drawing characters, which the module      *)
(* language cannot write in a string, are named by their code points.      *)
(***************************************************************************)
EXTENDS Integers, Sequences, FiniteSets, TLC

-----------------------------------------------------------------------------
(* Characters and strings                                                  *)

NL == "\n"
BoxUR == "U+2514"    \* the corner of the connector of a last sibling
BoxVR == "U+251C"    \* the tee of the connector of a non-last sibling
BoxH == "U+2500"     \* the horizontal bar of both connectors
BoxV == "U+2502"     \* the vertical bar of the indentation
SP == " "
BQ == "U+0060"     \* the backtick of a fence marker
SEP == "/"

LastPrefix == <<BoxUR, BoxH, BoxH, SP>>
MidPrefix == <<BoxVR, BoxH, BoxH, SP>>
LastIndent == <<SP, SP, SP, SP>>
MidIndent == <<BoxV, SP, SP, SP>>
Fence == <<BQ, BQ, BQ>>

\* The string s1 + s2 + ... of a sequence of strings.
RECURSIVE Concat(_)
Concat(ss) ==
    IF ss = <<>> THEN <<>> ELSE Head(ss) \o Concat(Tail(ss))

\* Array.prototype.join of path components with the separator.
RECURSIVE JoinPath(_)
JoinPath(p) ==
    IF p = <<>> THEN <<>>
    ELSE IF Len(p) = 1 THEN p[1]
    ELSE p[1] \o <<SEP>> \o JoinPath(Tail(p))

Includes(s, c) == \E i \in 1..Len(s) : s[i] = c

IsPrefixOf(p, s) == Len(p) <= Len(s) /\ SubSeq(s, 1, Len(p)) = p


-----------------------------------------------------------------------------
(* estimateTokenCount                                                      *)

\* The characters the pattern \s matches and trim removes, among the modelled ones.
Whitespace == {SP, NL, "\t", "\r"}

\* The characters of the capture group of the split pattern.
Punctuation ==
    {".", ",", "!", "?", ";", ":", "'", "\"", "(", ")", "{", "}", "[", "]",
     "<", ">", "/", "\\", "=", "+", "-"}

\* The length of text.split(<the pattern>).filter(<non-blank>): a whitespace run
\* separates and yields nothing, a punctuation character separates and is a
\* fragment itself, and every maximal run of other characters is one fragment.
RECURSIVE CountTokens(_, _, _)
CountTokens(s, i, inWord) ==
    IF i > Len(s) THEN 0
    ELSE IF s[i] \in Whitespace THEN CountTokens(s, i + 1, FALSE)
    ELSE IF s[i] \in Punctuation THEN 1 + CountTokens(s, i + 1, FALSE)
    ELSE (IF inWord THEN 0 ELSE 1) + CountTokens(s, i + 1, TRUE)

TokenCount(s) == CountTokens(s, 1, FALSE)

\* text.split("\n"): the lines, the empty text giving one empty line.
RECURSIVE SplitLines(_, _)
SplitLines(s, cur) ==
    IF s = <<>> THEN <<cur>>
    ELSE IF Head(s) = NL THEN <<cur>> \o SplitLines(Tail(s), <<>>)
    ELSE SplitLines(Tail(s), Append(cur, Head(s)))

RECURSIVE TrimStart(_)
TrimStart(s) ==
    IF s # <<>> /\ Head(s) \in Whitespace THEN TrimStart(Tail(s)) ELSE s

\* IsFenceLine as it would be with the line taken as it is, not trimmed.
IsFenceLineUntrimmed(line) == IsPrefixOf(Fence, line)

\* line.trim().startsWith("```")
IsFenceLine(line) == IsPrefixOf(Fence, TrimStart(line))

\* The loop over the lines: the two streams after the lines from index i on.
RECURSIVE ScanLines(_, _, _, _, _)
ScanLines(lines, i, inCodeBlock, codeBlockContent, normalContent) ==
    IF i > Len(lines)
    THEN [codeBlockContent |-> codeBlockContent, normalContent |-> normalContent]
    ELSE IF IsFenceLine(lines[i])
    THEN ScanLines(lines, i + 1, ~inCodeBlock, codeBlockContent, normalContent)
    ELSE IF inCodeBlock
    THEN ScanLines(lines, i + 1, inCodeBlock,
                   codeBlockContent \o lines[i] \o <<NL>>, normalContent)
    ELSE ScanLines(lines, i + 1, inCodeBlock,
                   codeBlockContent, normalContent \o lines[i] \o <<NL>>)

\* Math.ceil(n * 1.2): the double nearest 1.2 lies below 1.2 and an integer
\* product is representable, so the rounded product never passes the integer
\* above the exact one and the ceiling is that of 6n/5.
CeilCodeWeight(n) == (6 * n + 4) \div 5

estimateTokenCount(text) ==
    IF text = <<>> THEN 0
    ELSE LET streams == ScanLines(SplitLines(text, <<>>), 1, FALSE, <<>>, <<>>)
         IN  TokenCount(streams.normalContent)
               + CeilCodeWeight(TokenCount(streams.codeBlockContent))

-----------------------------------------------------------------------------
(* shouldIgnore                                                            *)

\* pattern.replace(/\./g, "\\.")
RECURSIVE EscapeDots(_)
EscapeDots(p) ==
    IF p = <<>> THEN <<>>
    ELSE (IF Head(p) = "." THEN <<"\\", ".">> ELSE <<Head(p)>>) \o EscapeDots(Tail(p))

\* .replace(/\*/g, ".*")
RECURSIVE ExpandStars(_)
ExpandStars(p) ==
    IF p = <<>> THEN <<>>
    ELSE (IF Head(p) = "*" THEN <<".", "*">> ELSE <<Head(p)>>) \o ExpandStars(Tail(p))

\* The source handed to the RegExp constructor.
RegexSource(pattern) == <<"^">> \o ExpandStars(EscapeDots(pattern)) \o <<"$">>

Quantifiers == {"*", "+"}
ParseError == [ok |-> FALSE, items |-> <<>>]

\* The RegExp constructor on a source over the characters the model draws
\* patterns from (letters, ".", "*", "+", "[", and the "\\", "^", "$" the
\* translation adds): a quantifier with nothing to repeat and a character
\* class that is never closed (no "]" is ever drawn) are syntax errors.
RECURSIVE ParseRegex(_, _, _)
ParseRegex(src, i, acc) ==
    IF i > Len(src) THEN [ok |-> TRUE, items |-> acc]
    ELSE IF src[i] \in Quantifiers THEN ParseError
    ELSE IF src[i] = "[" THEN ParseError
    ELSE IF src[i] \in {"^", "$"}
    THEN ParseRegex(src, i + 1,
                    Append(acc, [kind |-> src[i], ch |-> src[i], quant |-> "1"]))
    ELSE IF src[i] = "\\" /\ i = Len(src) THEN ParseError
    ELSE LET esc == src[i] = "\\"
             j == IF esc THEN i + 2 ELSE i + 1
             atom == IF esc THEN [kind |-> "lit", ch |-> src[i + 1]]
                     ELSE IF src[i] = "." THEN [kind |-> "any", ch |-> "."]
                     ELSE [kind |-> "lit", ch |-> src[i]]
             quant == IF j <= Len(src) /\ src[j] \in Quantifiers THEN src[j] ELSE "1"
             k == IF quant = "1" THEN j ELSE j + 1
         IN  ParseRegex(src, k,
                        Append(acc, [kind |-> atom.kind, ch |-> atom.ch, quant |-> quant]))

\* Whether an atom matches one character ("." matches all but line ends).
AtomMatches(item, c) ==
    IF item.kind = "any" THEN c \notin {NL, "\r"} ELSE c = item.ch

\* Backtracking match of items[k..] against s from position i.
RECURSIVE MatchItems(_, _, _, _)
MatchItems(items, k, s, i) ==
    IF k > Len(items) THEN TRUE
    ELSE LET it == items[k]
             here == i <= Len(s) /\ AtomMatches(it, s[i])
         IN  CASE it.kind = "^" -> i = 1 /\ MatchItems(items, k + 1, s, i)
               [] it.kind = "$" -> i = Len(s) + 1 /\ MatchItems(items, k + 1, s, i)
               [] it.quant = "1" -> here /\ MatchItems(items, k + 1, s, i + 1)
               [] it.quant = "*" -> \/ (here /\ MatchItems(items, k, s, i + 1))
                                    \/ MatchItems(items, k + 1, s, i)
               [] OTHER -> here /\ (\/ MatchItems(items, k, s, i + 1)
                                    \/ MatchItems(items, k + 1, s, i + 1))

\* RegExp.prototype.test: a match starting anywhere.
RegexTest(items, s) == \E start \in 1..(Len(s) + 1) : MatchItems(items, 1, s, start)

\* The callback of some() for one pattern: [threw, value].
PatternMatches(pattern, itemName) ==
    IF pattern = itemName THEN [threw |-> FALSE, value |-> TRUE]
    ELSE IF Includes(pattern, "*")
    THEN LET re == ParseRegex(RegexSource(pattern), 1, <<>>)
         IN  IF re.ok THEN [threw |-> FALSE, value |-> RegexTest(re.items, itemName)]
             ELSE [threw |-> TRUE, value |-> FALSE]
    ELSE [threw |-> FALSE, value |-> FALSE]

\* path.basename of a path given by its components.
Basename(p) == p[Len(p)]

\* ignorePatterns.some(...): the patterns in order, stopping at the first that
\* matches; a pattern that throws before that ends the call with its error.
RECURSIVE SomePattern(_, _)
SomePattern(itemName, patterns) ==
    IF patterns = <<>> THEN [threw |-> FALSE, value |-> FALSE]
    ELSE LET r == PatternMatches(Head(patterns), itemName)
         IN  IF r.threw \/ r.value THEN r ELSE SomePattern(itemName, Tail(patterns))

\* shouldIgnore as it would be were the whole path matched, not the basename.
shouldIgnoreWholePath(itemPath, ignorePatterns) ==
    SomePattern(JoinPath(itemPath), ignorePatterns)

shouldIgnore(itemPath, ignorePatterns) == SomePattern(Basename(itemPath), ignorePatterns)


-----------------------------------------------------------------------------
(* The file system the call runs on                                        *)

MaxNodes == 3     \* entries below the root, at most
MaxNameLen == 2   \* characters of a basename handed to the matcher alone
MaxPatterns == 2  \* patterns of a list handed to the matcher alone
MaxPatternChars == 3  \* characters of all the patterns of such a list together

\* Basenames of the entries of the walked trees.
Names == {<<"a">>, <<"b">>, <<"a", "b">>}

\* What a file holds, by its name: two lines, no line end at all, or nothing.
ContentOf(nm) ==
    CASE nm = <<"a">> -> <<"x", ".", NL, "y", NL>>
      [] nm = <<"b">> -> <<"h", "i">>
      [] OTHER -> <<>>

\* The ignore-pattern lists of the walked trees: none; an exact name; a
\* pattern with a regex metacharacter and no "*", then a glob; an exact name,
\* then a pattern with a metacharacter and a "*".
PatternLists ==
    {<<>>,
     << <<"a">> >>,
     << <<"[">>, <<"a", "*">> >>,
     << <<"b">>, <<"[", "*">> >>}

\* A node is a file, a directory with its listing in readdir order, or nothing.
NoNode == [kind |-> "none", content |-> <<>>, items |-> <<>>]
FileNode(c) == [kind |-> "file", content |-> c, items |-> <<>>]
DirNode(f) == [kind |-> "dir", content |-> <<>>, items |-> f]

RECURSIVE NodeSize(_)
RECURSIVE ForestSize(_)
NodeSize(t) == 1 + ForestSize(t.items)
ForestSize(f) == IF f = <<>> THEN 0 ELSE NodeSize(Head(f).node) + ForestSize(Tail(f))

\* The listings of at most n entries in all, names distinct within a directory.
Forests[n \in 0..MaxNodes] ==
    IF n = 0 THEN {<<>>}
    ELSE {<<>>} \cup UNION {
             UNION {
                 {<<[name |-> nm, node |-> t]>> \o rest :
                     rest \in {f \in Forests[n - NodeSize(t)] :
                                  \A i \in 1..Len(f) : f[i].name # nm}} :
                 t \in {FileNode(ContentOf(nm))}
                          \cup {DirNode(f) : f \in Forests[n - 1]}} :
             nm \in Names}

\* What dirPath may name: nothing, a file, or a directory tree.
Roots ==
    {NoNode, FileNode(ContentOf(<<"b">>))} \cup {DirNode(f) : f \in Forests[MaxNodes]}

\* dirPath, by its components, and the text of a path.
dirPath == << <<"r">> >>
PathText(p) == <<SEP>> \o JoinPath(p)

\* RelativePath as it would be were the key the item's own name.
RelativePathItemOnly(fullPath) == fullPath[Len(fullPath)]

\* path.relative(dirPath, fullPath) for a path below dirPath.
RelativePath(fullPath) == JoinPath(SubSeq(fullPath, Len(dirPath) + 1, Len(fullPath)))

RECURSIVE ChildNamed(_, _)
ChildNamed(f, nm) ==
    IF f = <<>> THEN NoNode
    ELSE IF Head(f).name = nm THEN Head(f).node
    ELSE ChildNamed(Tail(f), nm)

\* The node a path of names leads to from a node.
RECURSIVE Descend(_, _)
Descend(t, names) ==
    IF names = <<>> THEN t
    ELSE IF t.kind # "dir" THEN NoNode
    ELSE Descend(ChildNamed(t.items, Head(names)), Tail(names))

ListingNames(f) == [i \in 1..Len(f) |-> f[i].name]


-----------------------------------------------------------------------------
(* generateFileMap                                                         *)

VARIABLES
    root,            \* what dirPath names in the file system
    ignorePatterns,  \* options.ignorePatterns
    outputPath,      \* options.outputPath, the empty text when absent
    outFile,         \* the file at outputPath: [exists, text]
    pc,              \* "start", "walk", "done" or "error"
    stack,           \* the processDirectory calls in progress, innermost last
    fileMap,
    fileContents,
    fileTokens,
    result,          \* what the call returned: [returned, ...]
    error,           \* what the call threw: [kind, message]
    ioLog,           \* the file-system calls made so far: [op, path, ok]
    outFileBefore,   \* the file at outputPath as it was when the call began
    mName,           \* the matcher alone: the path it is asked about,
    mPatterns,       \*   the pattern list,
    mResult,         \*   and what the call gave: [called, threw, value]
    eText,           \* the estimator alone: the text it is given
    eResult          \*   and what the call gave: [called, value]

walkVars == <<root, ignorePatterns, outputPath, outFile, pc, stack, fileMap,
              fileContents, fileTokens, result, error, ioLog, outFileBefore>>
matchVars == <<mName, mPatterns, mResult>>
estVars == <<eText, eResult>>
vars == <<walkVars, matchVars, estVars>>

DirectoryNotFoundText ==
    <<"D", "i", "r", "e", "c", "t", "o", "r", "y", " ", "n", "o", "t", " ",
      "f", "o", "u", "n", "d", ":", " ">>
FileLabel == <<"F", "i", "l", "e", ":", " ">>
StructureHeading ==
    <<"#", " ", "D", "i", "r", "e", "c", "t", "o", "r", "y", " ", "S", "t", "r",
      "u", "c", "t", "u", "r", "e", " ", "f", "o", "r", " ">>
ContentsHeading ==
    <<"#", " ", "F", "i", "l", "e", " ", "C", "o", "n", "t", "e", "n", "t", "s">>

NoError == [kind |-> "none", message |-> <<>>]
NoResult ==
    [returned |-> FALSE, fileMap |-> <<>>, fileContents |-> <<>>,
     fileTokens |-> <<>>,
     tokenCount |-> [total |-> 0, fileMapTokens |-> 0, fileContentsTokens |-> 0]]
NoEstimateCall == [called |-> FALSE, value |-> 0]
NoMatchCall == [called |-> FALSE, threw |-> FALSE, value |-> FALSE]
Absent == [exists |-> FALSE, text |-> <<>>]
OldReport == [exists |-> TRUE, text |-> <<"o", "l", "d">>]

\* Throw as it would be were the error caught and the walk left to go on.
ThrowSwallowed(kind, message) ==
    /\ pc' = pc
    /\ error' = error

\* An exception leaving generateFileMap: nothing is returned.
Throw(kind, message) ==
    /\ pc' = "error"
    /\ error' = [kind |-> kind, message |-> message]

Logged(op, path, ok) == ioLog' = Append(ioLog, [op |-> op, path |-> path, ok |-> ok])

\* The innermost processDirectory call and the item its forEach is at.
Top == stack[Len(stack)]
AtItem == pc = "walk" /\ stack # <<>> /\ Top.index <= Len(Top.items)
item == Top.items[Top.index]
fullPath == Append(Top.currentPath, item)
NodeAt(path) == Descend(root, SubSeq(path, Len(dirPath) + 1, Len(path)))

isLast == Top.index = Len(Top.items)
prefix == IF isLast THEN LastPrefix ELSE MidPrefix
NextItem == [stack EXCEPT ![Len(stack)].index = @ + 1]

\* fileMap += indent + prefix + item + "\n"
EmitLine == fileMap' = fileMap \o Top.indent \o prefix \o item \o <<NL>>

\* FileBlock as it would be with no line break after the content.
FileBlockNoBreak(relativePath, content) ==
    FileLabel \o relativePath \o <<NL>> \o Fence \o <<NL>> \o content
        \o Fence \o <<NL, NL>>

\* The block of one file in fileContents.
FileBlock(relativePath, content) ==
    FileLabel \o relativePath \o <<NL>> \o Fence \o <<NL>> \o content
        \o <<NL>> \o Fence \o <<NL, NL>>

\* The frame of processDirectory(currentPath, indent) once readdirSync returned.
Frame(currentPath, indent) ==
    [currentPath |-> currentPath, indent |-> indent,
     items |-> ListingNames(NodeAt(currentPath).items), index |-> 1]

Init ==
    /\ root \in Roots
    /\ ignorePatterns \in PatternLists
    /\ outputPath \in {<<>>, <<"o">>}
    /\ outFile \in (IF outputPath = <<>> THEN {Absent} ELSE {Absent, OldReport})
    /\ pc = "start"
    /\ stack = <<>>
    /\ fileMap = <<>>
    /\ fileContents = <<>>
    /\ fileTokens = <<>>
    /\ result = NoResult
    /\ error = NoError
    /\ ioLog = <<>>
    /\ outFileBefore = outFile
    /\ mName = <<>>
    /\ mPatterns = <<>>
    /\ mResult = NoMatchCall
    /\ eText = <<>>
    /\ eResult = NoEstimateCall

\* BeginNotFound as it would be with no existence check: the listing fails.
BeginWithoutExistsCheck ==
    /\ pc = "start"
    /\ root.kind = "none"
    /\ Logged("readdir", dirPath, FALSE)
    /\ fileMap' = dirPath[Len(dirPath)] \o <<NL>>
    /\ Throw("IOFailure", <<>>)
    /\ UNCHANGED <<root, ignorePatterns, outputPath, outFile, stack,
                   fileContents, fileTokens, result, outFileBefore, matchVars, estVars>>

\* existsSync(dirPath) is false: the call throws before anything else.
BeginNotFound ==
    /\ pc = "start"
    /\ root.kind = "none"
    /\ Logged("exists", dirPath, FALSE)
    /\ Throw("Error", DirectoryNotFoundText \o PathText(dirPath))
    /\ UNCHANGED <<root, ignorePatterns, outputPath, outFile, stack, fileMap,
                   fileContents, fileTokens, result, outFileBefore, matchVars, estVars>>

\* Begin as it would be were the report file opened for writing at the start.
BeginOpensReport ==
    /\ pc = "start"
    /\ root.kind = "dir"
    /\ ioLog' = ioLog \o <<[op |-> "exists", path |-> dirPath, ok |-> TRUE],
                           [op |-> "readdir", path |-> dirPath, ok |-> TRUE]>>
    /\ fileMap' = Basename(dirPath) \o <<NL>>
    /\ stack' = <<Frame(dirPath, <<>>)>>
    /\ pc' = "walk"
    /\ outFile' = IF outputPath # <<>> THEN [exists |-> TRUE, text |-> <<>>]
                  ELSE outFile
    /\ UNCHANGED <<root, ignorePatterns, outputPath, fileContents,
                   fileTokens, result, error, outFileBefore, matchVars, estVars>>

\* dirPath exists: the root line, then processDirectory(dirPath) lists it.
Begin ==
    /\ pc = "start"
    /\ root.kind = "dir"
    /\ ioLog' = ioLog \o <<[op |-> "exists", path |-> dirPath, ok |-> TRUE],
                           [op |-> "readdir", path |-> dirPath, ok |-> TRUE]>>
    /\ fileMap' = Basename(dirPath) \o <<NL>>
    /\ stack' = <<Frame(dirPath, <<>>)>>
    /\ pc' = "walk"
    /\ UNCHANGED <<root, ignorePatterns, outputPath, outFile, fileContents,
                   fileTokens, result, error, outFileBefore, matchVars, estVars>>

\* dirPath exists and readdirSync(dirPath) fails (always so when it is a file).
BeginListFails ==
    /\ pc = "start"
    /\ root.kind # "none"
    /\ ioLog' = ioLog \o <<[op |-> "exists", path |-> dirPath, ok |-> TRUE],
                           [op |-> "readdir", path |-> dirPath, ok |-> FALSE]>>
    /\ fileMap' = Basename(dirPath) \o <<NL>>
    /\ Throw("IOFailure", <<>>)
    /\ UNCHANGED <<root, ignorePatterns, outputPath, outFile, stack, fileContents,
                   fileTokens, result, outFileBefore, matchVars, estVars>>


\* shouldIgnore(fullPath, ignorePatterns) for the item at hand.
ignoreCheck == shouldIgnore(fullPath, ignorePatterns)
Kept == AtItem /\ ~ignoreCheck.threw /\ ~ignoreCheck.value

\* The matcher throws on the item: its error leaves generateFileMap.
MatcherThrows ==
    /\ AtItem
    /\ ignoreCheck.threw
    /\ Throw("SyntaxError", <<>>)
    /\ UNCHANGED <<root, ignorePatterns, outputPath, outFile, stack, fileMap,
                   fileContents, fileTokens, result, ioLog, outFileBefore, matchVars, estVars>>

\* The item matches an ignore pattern: the callback returns at once.
SkipIgnored ==
    /\ AtItem
    /\ ~ignoreCheck.threw
    /\ ignoreCheck.value
    /\ stack' = NextItem
    /\ UNCHANGED <<root, ignorePatterns, outputPath, outFile, pc, fileMap,
                   fileContents, fileTokens, result, error, ioLog, outFileBefore,
                   matchVars, estVars>>

\* statSync(fullPath) fails.
StatFails ==
    /\ Kept
    /\ Logged("stat", fullPath, FALSE)
    /\ Throw("IOFailure", <<>>)
    /\ UNCHANGED <<root, ignorePatterns, outputPath, outFile, stack, fileMap,
                   fileContents, fileTokens, result, outFileBefore, matchVars, estVars>>

\* ChildIndent as it would be were the bar drawn under every ancestor.
ChildIndentAlwaysBar == Top.indent \o MidIndent

\* The indent handed to the recursive call.
ChildIndent == Top.indent \o (IF isLast THEN LastIndent ELSE MidIndent)

\* VisitDirectory as it would be were the listing of the directory put off
\* until the directories above it are done.
VisitDirectoryDeferred ==
    /\ Kept
    /\ NodeAt(fullPath).kind = "dir"
    /\ ioLog' = ioLog \o <<[op |-> "stat", path |-> fullPath, ok |-> TRUE],
                           [op |-> "readdir", path |-> fullPath, ok |-> TRUE]>>
    /\ EmitLine
    /\ stack' = <<Frame(fullPath, ChildIndent)>> \o NextItem
    /\ UNCHANGED <<root, ignorePatterns, outputPath, outFile, pc, fileContents,
                   fileTokens, result, error, outFileBefore,
                   matchVars, estVars>>

\* A directory: its line, then processDirectory lists it.
VisitDirectory ==
    /\ Kept
    /\ NodeAt(fullPath).kind = "dir"
    /\ ioLog' = ioLog \o <<[op |-> "stat", path |-> fullPath, ok |-> TRUE],
                           [op |-> "readdir", path |-> fullPath, ok |-> TRUE]>>
    /\ EmitLine
    /\ stack' = Append(NextItem, Frame(fullPath, ChildIndent))
    /\ UNCHANGED <<root, ignorePatterns, outputPath, outFile, pc, fileContents,
                   fileTokens, result, error, outFileBefore,
                   matchVars, estVars>>

\* A directory whose readdirSync fails.
VisitDirectoryListFails ==
    /\ Kept
    /\ NodeAt(fullPath).kind = "dir"
    /\ ioLog' = ioLog \o <<[op |-> "stat", path |-> fullPath, ok |-> TRUE],
                           [op |-> "readdir", path |-> fullPath, ok |-> FALSE]>>
    /\ EmitLine
    /\ Throw("IOFailure", <<>>)
    /\ UNCHANGED <<root, ignorePatterns, outputPath, outFile, stack, fileContents,
                   fileTokens, result, outFileBefore,
                   matchVars, estVars>>

\* fileTokens[relativePath] = tokens
SetToken(tokens, relativePath, n) ==
    [k \in (DOMAIN tokens) \cup {relativePath} |->
        IF k = relativePath THEN n ELSE tokens[k]]

\* A file: its line, its block, its token count.
VisitFile ==
    /\ Kept
    /\ NodeAt(fullPath).kind = "file"
    /\ ioLog' = ioLog \o <<[op |-> "stat", path |-> fullPath, ok |-> TRUE],
                           [op |-> "read", path |-> fullPath, ok |-> TRUE]>>
    /\ EmitLine
    /\ LET content == NodeAt(fullPath).content
           relativePath == RelativePath(fullPath)
       IN  /\ fileContents' = fileContents \o FileBlock(relativePath, content)
           /\ fileTokens' = SetToken(fileTokens, relativePath,
                                     estimateTokenCount(content))
    /\ stack' = NextItem
    /\ UNCHANGED <<root, ignorePatterns, outputPath, outFile, pc, result, error,
                   outFileBefore,
                   matchVars, estVars>>

\* A file whose readFileSync fails.
VisitFileReadFails ==
    /\ Kept
    /\ NodeAt(fullPath).kind = "file"
    /\ ioLog' = ioLog \o <<[op |-> "stat", path |-> fullPath, ok |-> TRUE],
                           [op |-> "read", path |-> fullPath, ok |-> FALSE]>>
    /\ EmitLine
    /\ Throw("IOFailure", <<>>)
    /\ UNCHANGED <<root, ignorePatterns, outputPath, outFile, stack, fileContents,
                   fileTokens, result, outFileBefore,
                   matchVars, estVars>>

\* The forEach of the innermost call is over: processDirectory returns.
ReturnFromDirectory ==
    /\ pc = "walk"
    /\ stack # <<>>
    /\ Top.index > Len(Top.items)
    /\ stack' = SubSeq(stack, 1, Len(stack) - 1)
    /\ UNCHANGED <<root, ignorePatterns, outputPath, outFile, pc, fileMap,
                   fileContents, fileTokens, result, error, ioLog, outFileBefore,
                   matchVars, estVars>>

\* mdContent as it would be were the report appended to the file.
mdContentAppended ==
    outFile.text \o StructureHeading \o dirPath[Len(dirPath)] \o <<NL, NL>>
        \o Fence \o <<NL>> \o fileMap \o Fence \o <<NL, NL>> \o ContentsHeading
        \o <<NL, NL>> \o fileContents

\* The document written to outputPath.
mdContent ==
    StructureHeading \o Basename(dirPath) \o <<NL, NL>> \o Fence \o <<NL>>
        \o fileMap \o Fence \o <<NL, NL>> \o ContentsHeading \o <<NL, NL>>
        \o fileContents

\* What generateFileMap returns.
MapResult ==
    LET fileMapTokens == estimateTokenCount(fileMap)
        fileContentsTokens == estimateTokenCount(fileContents)
    IN  [returned |-> TRUE, fileMap |-> fileMap, fileContents |-> fileContents,
         fileTokens |-> fileTokens,
         tokenCount |-> [total |-> fileMapTokens + fileContentsTokens,
                         fileMapTokens |-> fileMapTokens,
                         fileContentsTokens |-> fileContentsTokens]]

\* The walk is over: the counts, the report when asked for, the result.
Finish ==
    /\ pc = "walk"
    /\ stack = <<>>
    /\ IF outputPath # <<>>
       THEN /\ outFile' = [exists |-> TRUE, text |-> mdContent]
            /\ Logged("write", outputPath, TRUE)
       ELSE UNCHANGED <<outFile, ioLog>>
    /\ result' = MapResult
    /\ pc' = "done"
    /\ UNCHANGED <<root, ignorePatterns, outputPath, stack, fileMap, fileContents,
                   fileTokens, error, outFileBefore, matchVars, estVars>>

\* writeFileSync fails: the file is as it was, or was opened and emptied.
FinishWriteFails ==
    /\ pc = "walk"
    /\ stack = <<>>
    /\ outputPath # <<>>
    /\ outFile' \in {outFile, [exists |-> TRUE, text |-> <<>>]}
    /\ Logged("write", outputPath, FALSE)
    /\ Throw("IOFailure", <<>>)
    /\ UNCHANGED <<root, ignorePatterns, outputPath, stack, fileMap, fileContents,
                   fileTokens, result, outFileBefore, matchVars, estVars>>

Next ==
    \/ BeginNotFound
    \/ Begin
    \/ BeginListFails
    \/ MatcherThrows
    \/ SkipIgnored
    \/ StatFails
    \/ VisitDirectory
    \/ VisitDirectoryListFails
    \/ VisitFile
    \/ VisitFileReadFails
    \/ ReturnFromDirectory
    \/ Finish
    \/ FinishWriteFails

Spec == Init /\ [][Next]_vars


-----------------------------------------------------------------------------
(* shouldIgnore alone, on every small basename and pattern list            *)

\* The characters basenames and patterns are drawn from: a letter and the
\* characters the translation to a regular expression treats or forgets.
MatchChars == {"a", ".", "*", "+", "["}

\* The strings of exactly n characters.
StringsOfLen[n \in 0..(MaxNameLen + MaxPatternChars)] ==
    IF n = 0 THEN {<<>>}
    ELSE {<<c>> \o t : c \in MatchChars, t \in StringsOfLen[n - 1]}

\* The lists of at most k patterns with at most n characters in all.
RECURSIVE ListsWithin(_, _)
ListsWithin(k, n) ==
    IF k = 0 THEN {<<>>}
    ELSE {<<>>} \cup UNION {
             {<<p>> \o rest : p \in StringsOfLen[m], rest \in ListsWithin(k - 1, n - m)} :
             m \in 0..n}

MatchLists == ListsWithin(MaxPatterns, MaxPatternChars)
MatchPaths ==
    {<<<<"a">>, b>> : b \in UNION {StringsOfLen[n] : n \in 1..MaxNameLen}}

MatchInit ==
    /\ mName \in MatchPaths
    /\ mPatterns \in MatchLists
    /\ mResult = NoMatchCall
    /\ root = NoNode
    /\ ignorePatterns = <<>>
    /\ outputPath = <<>>
    /\ outFile = Absent
    /\ pc = "idle"
    /\ stack = <<>>
    /\ fileMap = <<>>
    /\ fileContents = <<>>
    /\ fileTokens = <<>>
    /\ result = NoResult
    /\ error = NoError
    /\ ioLog = <<>>
    /\ outFileBefore = Absent
    /\ eText = <<>>
    /\ eResult = NoEstimateCall

\* shouldIgnore(mName, mPatterns) returns.
MatchReturns ==
    /\ ~mResult.called
    /\ ~shouldIgnore(mName, mPatterns).threw
    /\ mResult' = [called |-> TRUE, threw |-> FALSE,
                   value |-> shouldIgnore(mName, mPatterns).value]
    /\ UNCHANGED <<mName, mPatterns, walkVars, estVars>>

\* shouldIgnore(mName, mPatterns) throws.
MatchThrows ==
    /\ ~mResult.called
    /\ shouldIgnore(mName, mPatterns).threw
    /\ mResult' = [called |-> TRUE, threw |-> TRUE, value |-> FALSE]
    /\ UNCHANGED <<mName, mPatterns, walkVars, estVars>>

MatchNext == MatchReturns \/ MatchThrows

MatchSpec == MatchInit /\ [][MatchNext]_vars


-----------------------------------------------------------------------------
(* estimateTokenCount alone, on every text of a few short lines            *)

\* The most lines a text is made of.
MaxLines == 4

\* The lines texts are made of: an empty one, a word, words and punctuation,
\* a fence, an indented fence with a language after it, two backticks only,
\* and three backticks that do not begin the line.
EstLines ==
    {<<>>,
     <<"x">>,
     <<"x", ".", SP, "y">>,
     Fence,
     <<SP>> \o Fence \o <<"j", "s">>,
     <<BQ, BQ>>,
     <<"x", SP>> \o Fence}

\* The texts of exactly n lines, a line feed between one line and the next.
EstTextsOf[n \in 1..(MaxLines + 1)] ==
    IF n = 1 THEN EstLines
    ELSE {l \o <<NL>> \o t : l \in EstLines, t \in EstTextsOf[n - 1]}

EstTexts == UNION {EstTextsOf[n] : n \in 1..MaxLines}

EstInit ==
    /\ eText \in EstTexts
    /\ eResult = NoEstimateCall
    /\ mName = <<>>
    /\ mPatterns = <<>>
    /\ mResult = NoMatchCall
    /\ root = NoNode
    /\ ignorePatterns = <<>>
    /\ outputPath = <<>>
    /\ outFile = Absent
    /\ pc = "idle"
    /\ stack = <<>>
    /\ fileMap = <<>>
    /\ fileContents = <<>>
    /\ fileTokens = <<>>
    /\ result = NoResult
    /\ error = NoError
    /\ ioLog = <<>>
    /\ outFileBefore = Absent

\* estimateTokenCount(eText) returns.
EstimateReturns ==
    /\ ~eResult.called
    /\ eResult' = [called |-> TRUE, value |-> estimateTokenCount(eText)]
    /\ UNCHANGED <<eText, walkVars, matchVars>>

EstNext == EstimateReturns

EstimateSpec == EstInit /\ [][EstNext]_vars


-----------------------------------------------------------------------------
(* What the claims are stated in: the tree as it is, and the texts read back *)

Range(seq) == {seq[i] : i \in 1..Len(seq)}

\* Whether a basename matches some pattern of the call's list.
IgnoredName(nm) ==
    LET r == SomePattern(nm, ignorePatterns) IN ~r.threw /\ r.value

\* Whether a path below dirPath, by its names, has an ignored name on it.
HasIgnoredName(names) == \E k \in 1..Len(names) : IgnoredName(names[k])
BelowRoot(path) == SubSeq(path, Len(dirPath) + 1, Len(path))

\* Every entry of a listing and below it, in depth-first listing order.
RECURSIVE AllEntries(_, _)
AllEntries(f, parent) ==
    IF f = <<>> THEN <<>>
    ELSE LET p == Append(parent, Head(f).name)
         IN  <<[path |-> p, node |-> Head(f).node]>>
                 \o AllEntries(Head(f).node.items, p)
                 \o AllEntries(Tail(f), parent)

\* The entries no ignored name leads to or names, in the same order.
RECURSIVE Survivors(_, _)
Survivors(f, parent) ==
    IF f = <<>> THEN <<>>
    ELSE LET p == Append(parent, Head(f).name)
         IN  (IF IgnoredName(Head(f).name) THEN <<>>
              ELSE <<[path |-> p, node |-> Head(f).node]>>
                       \o Survivors(Head(f).node.items, p))
                 \o Survivors(Tail(f), parent)

RootEntries == AllEntries(root.items, <<>>)
RootSurvivors == Survivors(root.items, <<>>)
FilesOf(entries) == {e \in Range(entries) : e.node.kind = "file"}

\* s split at every occurrence of the character sep, from position i on, the
\* piece at hand having begun at position start.
RECURSIVE SplitFrom(_, _, _, _)
SplitFrom(s, sep, i, start) ==
    IF i > Len(s) THEN <<SubSeq(s, start, Len(s))>>
    ELSE IF s[i] = sep
    THEN <<SubSeq(s, start, i - 1)>> \o SplitFrom(s, sep, i + 1, i + 1)
    ELSE SplitFrom(s, sep, i + 1, start)

SplitAt(s, sep) == SplitFrom(s, sep, 1, 1)

\* The lines of a text that ends each line with a line feed.
LinesOf(text) ==
    LET parts == SplitAt(text, NL) IN SubSeq(parts, 1, Len(parts) - 1)

\* A diagram line read back: its indentation units, its connector, its name.
RECURSIVE IndentUnits(_)
IndentUnits(line) ==
    IF Len(line) >= 4 /\ SubSeq(line, 1, 4) \in {LastIndent, MidIndent}
    THEN <<SubSeq(line, 1, 4)>> \o IndentUnits(SubSeq(line, 5, Len(line)))
    ELSE <<>>

ReadLine(line) ==
    LET units == IndentUnits(line)
        rest == SubSeq(line, 4 * Len(units) + 1, Len(line))
    IN  [units |-> units,
         connector |-> SubSeq(rest, 1, 4),
         name |-> SubSeq(rest, 5, Len(rest))]

\* The relative paths of the "File: " lines of a contents text, in order.
RECURSIVE LabelsIn(_)
LabelsIn(lines) ==
    IF lines = <<>> THEN <<>>
    ELSE (IF IsPrefixOf(FileLabel, Head(lines))
          THEN <<SubSeq(Head(lines), Len(FileLabel) + 1, Len(Head(lines)))>>
          ELSE <<>>) \o LabelsIn(Tail(lines))

FileLabels(text) == LabelsIn(LinesOf(text))

\* The diagram lines below the root line are, in order, lines of the first
\* surviving entries: right name, one indentation unit per level.
LinesAreOf(mapText, entries) ==
    LET lines == LinesOf(mapText)
    IN  /\ Len(lines) - 1 <= Len(entries)
        /\ \A i \in 1..(Len(lines) - 1) :
               LET l == ReadLine(lines[i + 1])
               IN  /\ l.name = Basename(entries[i].path)
                   /\ Len(l.units) = Len(entries[i].path) - 1
                   /\ l.connector \in {LastPrefix, MidPrefix}

-----------------------------------------------------------------------------
(* The claims                                                              *)

\* C1: an entry whose basename matches an ignore pattern is skipped whole: no
\* readdir, stat or read is ever made on it or below it, and neither it nor
\* anything below it has a diagram line, a File block or a token key.
C1_IgnoredEntriesSkipped ==
    /\ \A i \in 1..Len(ioLog) :
           ioLog[i].op \in {"readdir", "stat", "read"}
               => ~HasIgnoredName(BelowRoot(ioLog[i].path))
    /\ pc \in {"walk", "done", "error"} /\ root.kind = "dir"
           => LinesAreOf(fileMap, RootSurvivors)
    /\ \A k \in DOMAIN fileTokens : ~HasIgnoredName(SplitAt(k, SEP))
    /\ \A k \in Range(FileLabels(fileContents)) :
           ~HasIgnoredName(SplitAt(k, SEP))

\* C1 witness: a finished walk of a root holding an ignored, non-empty
\* directory beside a file that is kept.
C1_Witness ==
    /\ pc = "done"
    /\ \E i, j \in 1..Len(root.items) :
           /\ IgnoredName(root.items[i].name)
           /\ root.items[i].node.items # <<>>
           /\ ~IgnoredName(root.items[j].name)
           /\ root.items[j].node.kind = "file"

BlockText(relText, content) ==
    Concat(<<FileLabel, relText, <<NL>>, Fence, <<NL>>, content, <<NL>>, Fence,
             <<NL, NL>>>>)

RECURSIVE BlocksOf(_)
BlocksOf(entries) ==
    IF entries = <<>> THEN <<>>
    ELSE (IF Head(entries).node.kind = "file"
          THEN BlockText(JoinPath(Head(entries).path), Head(entries).node.content)
          ELSE <<>>) \o BlocksOf(Tail(entries))

\* C4: with no ignore pattern, fileMap is the root's name line followed by
\* exactly one line for each file and directory of the tree, and fileContents
\* holds every file's content verbatim in its block (an empty directory gives
\* the root line alone and an empty fileContents).
C4_EveryEntryOnce ==
    pc = "done" /\ ignorePatterns = <<>> =>
        LET lines == LinesOf(result.fileMap)
        IN  /\ Len(lines) = 1 + Len(RootEntries)
            /\ lines[1] = Basename(dirPath)
            /\ LinesAreOf(result.fileMap, RootEntries)
            /\ result.fileContents = BlocksOf(RootEntries)
            /\ root.items = <<>> =>
                   /\ result.fileMap = Basename(dirPath) \o <<NL>>
                   /\ result.fileContents = <<>>

\* C4 witness: a successful call with no pattern on a tree of three entries,
\* one of them a file in a subdirectory.
C4_Witness ==
    /\ pc = "done"
    /\ ignorePatterns = <<>>
    /\ Len(RootEntries) = 3
    /\ \E e \in FilesOf(RootEntries) : Len(e.path) = 2 /\ e.node.content # <<>>

\* C5: when dirPath does not exist the call throws "Directory not found:
\* <path>" before any traversal: nothing is listed, statted, read or written,
\* and nothing is returned.
C5_DirectoryNotFoundFirst ==
    root.kind = "none" /\ pc # "start" =>
        /\ pc = "error"
        /\ error.kind = "Error"
        /\ error.message = DirectoryNotFoundText \o <<SEP, "r">>
        /\ \A i \in 1..Len(ioLog) : ioLog[i].op = "exists"
        /\ outFile = outFileBefore
        /\ ~result.returned

\* C5 witness: the call has thrown on a missing dirPath with an outputPath
\* given and a report file already there.
C5_Witness ==
    /\ root.kind = "none"
    /\ pc = "error"
    /\ outputPath # <<>>
    /\ outFileBefore.exists


\* The entry a diagram line stands for, and the line of an entry.
LineIndexOf(path, entries) == CHOOSE j \in 1..Len(entries) : entries[j].path = path

\* Whether an entry is the last one of its directory's listing that survives.
IsLastSurvivor(path) ==
    LET listing == Descend(root, SubSeq(path, 1, Len(path) - 1)).items
        kept == {j \in 1..Len(listing) : ~IgnoredName(listing[j].name)}
        last == CHOOSE m \in kept : \A j \in kept : j <= m
    IN  listing[last].name = Basename(path)

\* C2: in every directory of a finished walk the last surviving entry is drawn
\* with the corner connector and every other surviving entry with the tee,
\* wherever the ignored entries stand in the listing.
C2_LastSurvivorHasCorner ==
    pc = "done" =>
        LET lines == LinesOf(result.fileMap)
            entries == RootSurvivors
        IN  \A i \in 1..Len(entries) :
                ReadLine(lines[i + 1]).connector =
                    (IF IsLastSurvivor(entries[i].path)
                     THEN LastPrefix ELSE MidPrefix)

\* C6: a failed listing, stat, read or write is the last thing the call does
\* and ends it with an error; a call that ended with an error returned
\* nothing; a result is returned only when every call succeeded, every
\* surviving entry was walked and the report, if asked for, was written.
C6_NoPartialSuccess ==
    /\ \A i \in 1..Len(ioLog) :
           ~ioLog[i].ok => pc = "error" /\ i = Len(ioLog)
    /\ pc = "error" => ~result.returned /\ error.kind # "none"
    /\ result.returned =>
           /\ pc = "done"
           /\ \A i \in 1..Len(ioLog) : ioLog[i].ok
           /\ Len(LinesOf(result.fileMap)) = 1 + Len(RootSurvivors)
           /\ Cardinality(DOMAIN result.fileTokens)
                  = Cardinality(FilesOf(RootSurvivors))
           /\ outputPath # <<>> =>
                  /\ ioLog[Len(ioLog)].op = "write"
                  /\ outFile.exists

\* C6 witness: a read failed after an earlier entry had been walked, and the
\* call ended with an error.
C6_Witness ==
    /\ pc = "error"
    /\ Len(ioLog) >= 6
    /\ ioLog[Len(ioLog)].op = "read"
    /\ ~ioLog[Len(ioLog)].ok
    /\ fileContents # <<>>

C8_NoPatternRaises == error.kind # "SyntaxError"

\* The restricted glob: "*" stands for any run of characters, every other
\* character for itself.
RECURSIVE GlobMatches(_, _)
GlobMatches(pattern, name) ==
    IF pattern = <<>> THEN name = <<>>
    ELSE IF Head(pattern) = "*"
    THEN \/ GlobMatches(Tail(pattern), name)
         \/ name # <<>> /\ GlobMatches(pattern, Tail(name))
    ELSE name # <<>> /\ Head(name) = Head(pattern)
             /\ GlobMatches(Tail(pattern), Tail(name))

GlobIgnores(name, patterns) ==
    \E i \in 1..Len(patterns) :
        IF Includes(patterns[i], "*") THEN GlobMatches(patterns[i], name)
        ELSE patterns[i] = name

\* C9: whenever shouldIgnore returns, it returns what the restricted glob
\* matcher gives for the basename and the pattern list.
C9_MatcherAgreesWithGlob ==
    mResult.called /\ ~mResult.threw =>
        mResult.value = GlobIgnores(Basename(mName), mPatterns)

\* C10: the indentation of a diagram line is, ancestor by ancestor from the
\* outermost below the root to the parent, four spaces where the ancestor's
\* own line has the corner connector and a bar and three spaces where it has
\* the tee; a line of an entry of the root has none, and the root's line is
\* its bare name.
C10_IndentFollowsAncestors ==
    pc \in {"walk", "done", "error"} /\ root.kind = "dir" =>
        LET lines == LinesOf(fileMap)
            entries == RootSurvivors
            read == [i \in 1..(Len(lines) - 1) |-> ReadLine(lines[i + 1])]
        IN  /\ lines[1] = Basename(dirPath)
            /\ LinesAreOf(fileMap, entries)
            /\ \A i \in 1..(Len(lines) - 1) :
                   LET path == entries[i].path
                   IN  read[i].units =
                           [k \in 1..(Len(path) - 1) |->
                               IF read[LineIndexOf(SubSeq(path, 1, k), entries)].connector
                                      = LastPrefix
                               THEN LastIndent ELSE MidIndent]

\* C10 witness: a finished walk with a line one level down, under an ancestor
\* drawn with the tee.
C10_Witness ==
    /\ pc = "done"
    /\ \E i \in 2..Len(LinesOf(fileMap)) :
           ReadLine(LinesOf(fileMap)[i]).units = <<MidIndent>>

-----------------------------------------------------------------------------
(* C11: the estimate read off the lines of the text                        *)

\* Whether a line, its leading blanks set aside, begins with three backticks.
OpensWithFence(line) ==
    \E k \in 1..Len(line) :
        /\ \A j \in 1..(k - 1) : line[j] \in Whitespace
        /\ k + 2 <= Len(line)
        /\ \A j \in k..(k + 2) : line[j] = BQ

\* Whether line i lies inside a fence: an odd number of fence lines precede it.
InsideFence(lines, i) ==
    Cardinality({j \in 1..(i - 1) : OpensWithFence(lines[j])}) % 2 = 1

\* The places of a line where a token begins: every punctuation character,
\* and every other visible character that does not continue a word.
TokenStarts(line) ==
    {j \in 1..Len(line) :
        /\ line[j] \notin Whitespace
        /\ \/ line[j] \in Punctuation
           \/ j = 1
           \/ line[j - 1] \in Whitespace \cup Punctuation}

\* The tokens of the lines of one stream (TRUE: code, FALSE: prose).
StreamTokens(lines, code) ==
    Cardinality(UNION {{<<i, j>> : j \in TokenStarts(lines[i])} :
        i \in {k \in 1..Len(lines) :
                  ~OpensWithFence(lines[k]) /\ InsideFence(lines, k) = code}})

\* The least whole number not below 1.2 times n.
CeilingOfSixFifths(n) == CHOOSE c \in 0..(2 * n) : 5 * c >= 6 * n /\ 5 * (c - 1) < 6 * n

\* C11: the estimate is tokens(prose) + ceiling(1.2 * tokens(code)), the two
\* streams being told apart line by line by a toggle that starts outside a
\* fence, every fence line flipping it and counting in neither stream; the
\* estimate is 0 for the empty text and never negative.
C11_EstimateFollowsToggle ==
    eResult.called =>
        LET lines == SplitAt(eText, NL)
        IN  /\ eResult.value = StreamTokens(lines, FALSE)
                                 + CeilingOfSixFifths(StreamTokens(lines, TRUE))
            /\ eText = <<>> => eResult.value = 0
            /\ eResult.value >= 0

\* A text whose fence, indented, is never closed, with prose before it and
\* code after it that the weight rounds up, has been estimated.
C11_Witness ==
    /\ eResult.called
    /\ LET lines == SplitAt(eText, NL)
       IN  /\ Cardinality({i \in 1..Len(lines) : OpensWithFence(lines[i])}) = 1
           /\ \E i \in 1..Len(lines) :
                  OpensWithFence(lines[i]) /\ Head(lines[i]) = SP
           /\ StreamTokens(lines, FALSE) > 0
           /\ StreamTokens(lines, TRUE) > 0
           /\ StreamTokens(lines, TRUE) % 5 # 0
           /\ InsideFence(lines, Len(lines))

-----------------------------------------------------------------------------
(* C12: the order lines and blocks are emitted in                          *)

\* The entries a line was emitted for, in the order of their stat calls: the
\* line follows the stat that succeeded, before anything else is done.
StattedPaths ==
    LET Succeeded(e) == e.op = "stat" /\ e.ok
        calls == SelectSeq(ioLog, Succeeded)
    IN  [i \in 1..Len(calls) |-> calls[i].path]

\* The place of an entry in the listing of its directory.
PlaceInListing(path) ==
    LET listing == ListingNames(NodeAt(SubSeq(path, 1, Len(path) - 1)).items)
    IN  CHOOSE j \in 1..Len(listing) : listing[j] = Basename(path)

\* C12: the lines below the root line are those of the entries statted, in
\* order; a directory's line comes before the line of any entry below it, the
\* lines of the entries below a directory are not interrupted by a line from
\* outside it, the entries of one directory come in listing order, and the
\* "File: " labels are the emitted files in the order of their lines.
C12_DepthFirstListingOrder ==
    fileMap # <<>> =>
        LET paths == StattedPaths
            lines == LinesOf(fileMap)
            IsFile(p) == NodeAt(p).kind = "file"
            files == SelectSeq(paths, IsFile)
            labels == FileLabels(fileContents)
            Shared(p, q, n) == n <= Len(p) /\ n <= Len(q)
                                 /\ SubSeq(p, 1, n) = SubSeq(q, 1, n)
        IN  /\ Len(lines) = 1 + Len(paths)
            /\ \A i \in 1..Len(paths) :
                   LET l == ReadLine(lines[i + 1])
                   IN  /\ l.name = Basename(paths[i])
                       /\ Len(l.units) = Len(paths[i]) - Len(dirPath) - 1
            /\ \A i \in 1..Len(paths) :
                   \A n \in (Len(dirPath) + 1)..(Len(paths[i]) - 1) :
                       \E j \in 1..(i - 1) : paths[j] = SubSeq(paths[i], 1, n)
            /\ \A i, j, k \in 1..Len(paths) :
                   i < j /\ j < k =>
                       \A n \in (Len(dirPath) + 1)..Len(paths[i]) :
                           Shared(paths[i], paths[k], n) => Shared(paths[i], paths[j], n)
            /\ \A i, k \in 1..Len(paths) :
                   /\ i < k
                   /\ Len(paths[i]) = Len(paths[k])
                   /\ Shared(paths[i], paths[k], Len(paths[i]) - 1)
                   => PlaceInListing(paths[i]) < PlaceInListing(paths[k])
            /\ Len(labels) <= Len(files)
            /\ Len(files) - Len(labels) <= (IF pc = "error" THEN 1 ELSE 0)
            /\ \A i \in 1..Len(labels) : labels[i] = JoinPath(BelowRoot(files[i]))

\* A walk is over that went into a directory with an entry in it and came
\* back to an entry listed after the directory, two files having been read.
C12_Witness ==
    /\ pc = "done"
    /\ LET paths == StattedPaths
       IN  /\ Len(paths) = 3
           /\ NodeAt(paths[1]).kind = "dir"
           /\ Len(paths[2]) = Len(paths[1]) + 1
           /\ Len(paths[3]) = Len(paths[1])
           /\ Len(FileLabels(fileContents)) = 2

-----------------------------------------------------------------------------
(* C13: when the report file is written                                    *)

\* The places of the log where the report file was written to.
WriteCalls == {i \in 1..Len(ioLog) : ioLog[i].op = "write"}

\* C13: the file at outputPath is written at most once, as the last thing the
\* call does, when every call before it succeeded, no directory is still
\* being listed and every surviving entry has its line and the counts are
\* taken; when the root is missing or a listing, a stat or a read failed, and
\* whenever no write was made, the file is as it was before the call.
C13_ReportWrittenLast ==
    /\ Cardinality(WriteCalls) <= 1
    /\ \A i \in WriteCalls :
           /\ i = Len(ioLog)
           /\ ioLog[i].path = outputPath
           /\ outputPath # <<>>
           /\ \A j \in 1..(i - 1) : ioLog[j].ok
           /\ stack = <<>>
           /\ pc \in {"done", "error"}
           /\ Len(StattedPaths) = Len(RootSurvivors)
           /\ ioLog[i].ok =>
                  /\ result.returned
                  /\ result.tokenCount.fileMapTokens = estimateTokenCount(fileMap)
                  /\ result.tokenCount.fileContentsTokens
                       = estimateTokenCount(fileContents)
    /\ (\E i \in 1..Len(ioLog) :
            ~ioLog[i].ok /\ ioLog[i].op \in {"exists", "readdir", "stat", "read"})
           => outFile = outFileBefore /\ WriteCalls = {}
    /\ WriteCalls = {} => outFile = outFileBefore

\* A walk asked for a report, with a file already at outputPath, has emitted
\* two lines and then failed on a read.
C13_Witness ==
    /\ pc = "error"
    /\ outputPath # <<>>
    /\ outFileBefore = OldReport
    /\ Len(StattedPaths) >= 2
    /\ ioLog[Len(ioLog)] = [op |-> "read", path |-> StattedPaths[Len(StattedPaths)],
                            ok |-> FALSE]


=============================================================================
